---- MODULE Spec2Model ----
\* Model of quick-lint-js' table-driven symbol lexer
\* (src/quick-lint-js/fe/lex-tables.h): the character classification table,
\* the DFA transition table, the state-to-token table and the lookup
\* algorithm lex_tables::try_parse_current_token, step by step (one action
\* per label of the function).
EXTENDS Integers, Sequences, FiniteSets, TLC

\* ------------------------------------------------------------------ bounds
\* Longest input (without the terminating sentinel byte) that is explored.
MaxLen == 4
\* Longest input explored under the fairness specification.
MaxFairLen == 3

\* ------------------------------------------------- enum character_class
bang == 0
percent == 1
ampersand == 2
plus == 3
equal == 4
greater == 5
circumflex == 6
pipe == 7
other_character_class == 8
character_class_count == 9

\* Byte values of the characters the tables distinguish.
ch_bang == 33
ch_percent == 37
ch_ampersand == 38
ch_plus == 43
ch_equal == 61
ch_greater == 62
ch_circumflex == 94
ch_pipe == 124
ch_tilde == 126
ch_null == 0

\* All values of a std::uint8_t.
Uint8 == 0..255

\* character_class_table[256]: every byte that is not one of the eight symbol
\* characters is '_' (other_character_class).
\* character_class_table with pipe one column to the right, at '}'.
character_class_table_shifted_pipe ==
  [b \in Uint8 |->
     CASE b = ch_bang -> bang
       [] b = ch_percent -> percent
       [] b = ch_ampersand -> ampersand
       [] b = ch_plus -> plus
       [] b = ch_equal -> equal
       [] b = ch_greater -> greater
       [] b = ch_circumflex -> circumflex
       [] b = ch_pipe + 1 -> pipe
       [] OTHER -> other_character_class]

character_class_table ==
  [b \in Uint8 |->
     CASE b = ch_bang -> bang
       [] b = ch_percent -> percent
       [] b = ch_ampersand -> ampersand
       [] b = ch_plus -> plus
       [] b = ch_equal -> equal
       [] b = ch_greater -> greater
       [] b = ch_circumflex -> circumflex
       [] b = ch_pipe -> pipe
       [] OTHER -> other_character_class]

\* -------------------------------------------------------------- enum state
state_data_bits == 5
state_data_mask == 31
state_dispatcher_bits == 3

\* x >> state_data_bits and x & state_data_mask on an 8-bit state value.
\* Indexing with the whole state value: no mask applied.
BitAndMask_none(x) == x

ShiftRight(x, n) == x \div (2 ^ n)
BitAndMask(x) == x % (state_data_mask + 1)
ShiftLeft(x, n) == x * (2 ^ n)

\* Possibly-incomplete states:
bang_equal == 8 + ShiftLeft(0, state_data_bits)
ampersand_ampersand == 9 + ShiftLeft(0, state_data_bits)
equal_equal == 10 + ShiftLeft(0, state_data_bits)
greater_greater == 11 + ShiftLeft(0, state_data_bits)
pipe_pipe == 12 + ShiftLeft(0, state_data_bits)
greater_greater_greater == 13 + ShiftLeft(0, state_data_bits)
\* Complete/terminal states:
done_percent_equal == 14 + ShiftLeft(2, state_data_bits)
done_ampersand_equal == 15 + ShiftLeft(2, state_data_bits)
done_plus_plus == 16 + ShiftLeft(2, state_data_bits)
done_plus_equal == 17 + ShiftLeft(2, state_data_bits)
done_equal_greater == 18 + ShiftLeft(2, state_data_bits)
done_greater_equal == 19 + ShiftLeft(2, state_data_bits)
done_circumflex_equal == 20 + ShiftLeft(2, state_data_bits)
done_pipe_equal == 21 + ShiftLeft(2, state_data_bits)
done_bang_equal_equal == 22 + ShiftLeft(2, state_data_bits)
done_ampersand_ampersand_equal == 23 + ShiftLeft(2, state_data_bits)
done_equal_equal_equal == 24 + ShiftLeft(2, state_data_bits)
done_greater_greater_equal == 25 + ShiftLeft(2, state_data_bits)
done_pipe_pipe_equal == 26 + ShiftLeft(2, state_data_bits)
done_greater_greater_greater_equal == 27 + ShiftLeft(2, state_data_bits)
\* An unexpected character was detected.
retract == ShiftLeft(1, state_data_bits)

input_state_count == 14

\* is_terminal_state comparing with >= instead of >.
is_terminal_state_ge(s) == s >= greater_greater_greater

is_terminal_state(s) == s > greater_greater_greater

is_initial_state_terminal(s) == s >= bang_equal

\* ------------------------------------------------------ transition_table
\* The rows of the initialiser, one per character class, in source order;
\* each row lists the entry for input states 0..13.
transition_rows ==
  << \* !
     << retract, retract, retract, retract, retract, retract, retract,
        retract, retract, retract, retract, retract, retract, retract >>,
     \* %
     << retract, retract, retract, retract, retract, retract, retract,
        retract, retract, retract, retract, retract, retract, retract >>,
     \* &
     << retract, retract, ampersand_ampersand, retract, retract, retract,
        retract, retract, retract, retract, retract, retract, retract,
        retract >>,
     \* +
     << retract, retract, retract, done_plus_plus, retract, retract, retract,
        retract, retract, retract, retract, retract, retract, retract >>,
     \* =
     << bang_equal, done_percent_equal, done_ampersand_equal, done_plus_equal,
        equal_equal, done_greater_equal, done_circumflex_equal,
        done_pipe_equal, done_bang_equal_equal,
        done_ampersand_ampersand_equal, done_equal_equal_equal,
        done_greater_greater_equal, done_pipe_pipe_equal,
        done_greater_greater_greater_equal >>,
     \* >
     << retract, retract, retract, retract, done_equal_greater,
        greater_greater, retract, retract, retract, retract, retract,
        greater_greater_greater, retract, retract >>,
     \* ^
     << retract, retract, retract, retract, retract, retract, retract,
        retract, retract, retract, retract, retract, retract, retract >>,
     \* |
     << retract, retract, retract, retract, retract, retract, retract,
        pipe_pipe, retract, retract, retract, retract, retract, retract >>,
     \* (other)
     << retract, retract, retract, retract, retract, retract, retract,
        retract, retract, retract, retract, retract, retract, retract >> >>

\* transition_table without the edge from ">>" to ">>>".
transition_table_no_triple ==
  [c \in 0..character_class_count |->
     [s \in 0..(input_state_count - 1) |->
        IF c = greater /\ s = greater_greater THEN retract
        ELSE IF c < character_class_count THEN transition_rows[c + 1][s + 1]
        ELSE 0]]

\* transition_table whose entry for '>' after ">>" is ">>" again.
transition_table_cyclic ==
  [c \in 0..character_class_count |->
     [s \in 0..(input_state_count - 1) |->
        IF c = greater /\ s = greater_greater THEN greater_greater
        ELSE IF c < character_class_count THEN transition_rows[c + 1][s + 1]
        ELSE 0]]

\* transition_table whose (other) row continues from ">" instead of
\* retracting.
transition_table_other_row ==
  [c \in 0..character_class_count |->
     [s \in 0..(input_state_count - 1) |->
        IF c = other_character_class /\ s = greater THEN greater_greater
        ELSE IF c < character_class_count THEN transition_rows[c + 1][s + 1]
        ELSE 0]]

\* transition_table[character_class_count + 1][input_state_count]: the nine
\* initialised rows, and a tenth row the initialiser leaves zero.
transition_table ==
  [c \in 0..character_class_count |->
     [s \in 0..(input_state_count - 1) |->
        IF c < character_class_count THEN transition_rows[c + 1][s + 1]
        ELSE 0]]

\* ------------------------------------------------------- state_to_token
invalid_token_type == "identifier"

state_to_token_rows ==
  << "bang", "percent", "ampersand", "plus", "equal", "greater",
     "circumflex", "pipe", "bang_equal", "ampersand_ampersand",
     "equal_equal", "greater_greater", "pipe_pipe",
     "greater_greater_greater", "percent_equal", "ampersand_equal",
     "plus_plus", "plus_equal", "equal_greater", "greater_equal",
     "circumflex_equal", "pipe_equal", "bang_equal_equal",
     "ampersand_ampersand_equal", "equal_equal_equal",
     "greater_greater_equal", "pipe_pipe_equal",
     "greater_greater_greater_equal" >>

\* state_to_token with the entries of ">>=" and "||=" interchanged.
state_to_token_swapped ==
  [i \in 0..(Len(state_to_token_rows) - 1) |->
     IF i = 25 THEN state_to_token_rows[27]
     ELSE IF i = 26 THEN state_to_token_rows[26]
     ELSE state_to_token_rows[i + 1]]

state_to_token ==
  [i \in 0..(Len(state_to_token_rows) - 1) |-> state_to_token_rows[i + 1]]

\* ------------------------------------------------------------ the lexer
\* The bytes an input is drawn from: the eight symbol characters and '~',
\* a byte of the catch-all class. Every buffer ends with a null byte.
InputBytes ==
  {ch_bang, ch_percent, ch_ampersand, ch_plus, ch_equal, ch_greater,
   ch_circumflex, ch_pipe, ch_tilde}

\* The padded buffers whose input is 1..n bytes long.
Buffers(n) ==
  {body \o <<ch_null>> : body \in UNION {[1..k -> InputBytes] : k \in 1..n}}

TokenTypes == {state_to_token_rows[i] : i \in 1..Len(state_to_token_rows)}

\* Marks a local variable that has been declared but not assigned.
Uninit == -1

\* No token has been lexed yet.
NoToken == "none"

Labels == {"transition", "dispatch", "done_retract", "done_unique_terminal"}

VARIABLES
  buffer,         \* the padded input, a sequence of bytes (1-based positions)
  computed_goto,  \* QLJS_LEX_DISPATCH_USE_COMPUTED_GOTO of this build
  input_,         \* l->input_
  last_token_,    \* l->last_token_ (type, end)
  pc,             \* position in try_parse_current_token
  input,          \* local: const char8* input
  old_state,      \* local: lex_tables::state old_state
  new_state,      \* local: lex_tables::state new_state
  begin,          \* value of l->input_ when the current call was entered
  reads,          \* positions of the buffer dereferenced by the current call
  accesses,       \* table reads of the current call, in order
  labels,         \* labels the current call has executed, in order
  lexers          \* the lexer instances of a concurrent run, by instance id

\* The state of one run of the analyze-trace tool (tools/analyze-trace.cpp).
VARIABLES
  parser,         \* arg_parser parser: the arguments it has not matched yet
  o,              \* analyze_options o
  main_pc,        \* position in main and parse_analyze_options
  exit_status,    \* exit status of the process, once it has ended
  file,           \* outcome of read_file
  events,         \* the events read_trace_stream has visited, in stream order
  doc_,           \* document_content_dumper::doc_, its text
  document_id_,   \* document_content_dumper::document_id_
  stdout,         \* what has been printed on stdout, one item per call
  stderr,         \* what has been printed on stderr, one item per call
  args_given      \* what the command line held when main was entered

trace_vars ==
  << parser, o, main_pc, exit_status, file, events, doc_, document_id_,
     stdout, stderr, args_given >>

vars ==
  << buffer, computed_goto, input_, last_token_, pc, input, old_state,
     new_state, begin, reads, accesses, labels, lexers, trace_vars >>

\* std::optional without a value; with the value v it is <<v>>.
nullopt == << >>

\* The process has not ended.
Running == -1

\* No unrecognized option, no malformed document ID and no trace file: what
\* an empty command line holds.
NothingGiven == [files |-> 0, malformed |-> FALSE, unrecognized |-> FALSE]

\* The tool is not part of the run.
AnalyzeTraceNotRun ==
  /\ parser = << >>
  /\ o = [trace_files |-> << >>,
          dump_final_document_content_document_id |-> nullopt]
  /\ main_pc = "not_run"
  /\ exit_status = Running
  /\ file = "unread"
  /\ events = << >>
  /\ doc_ = << >>
  /\ document_id_ = nullopt
  /\ stdout = << >>
  /\ stderr = << >>
  /\ args_given = NothingGiven

\* *p for a pointer p into the buffer; a read outside the buffer can yield
\* any byte.
ReadByte(p) == IF p \in 1..Len(buffer) THEN {buffer[p]} ELSE Uint8

\* transition_table[c][s]; an index outside the array can yield any value.
TransitionLookup(c, s) ==
  IF c \in 0..character_class_count /\ s \in 0..(input_state_count - 1)
  THEN {transition_table[c][s]}
  ELSE Uint8

\* state_to_token[i]; an index outside the array can yield any token type.
TokenLookup(i) ==
  IF i \in DOMAIN state_to_token THEN {state_to_token[i]}
  ELSE TokenTypes \cup {invalid_token_type}

\* dispatch_table with the labels of done_retract and done_unique_terminal
\* interchanged.
dispatch_table_swapped ==
  [i \in 0..2 |->
     CASE i = 0 -> "transition"
       [] i = 1 -> "done_unique_terminal"
       [] i = 2 -> "done_retract"]

\* static void* dispatch_table[] = {&&transition, &&done_retract,
\* &&done_unique_terminal}
dispatch_table ==
  [i \in 0..2 |->
     CASE i = 0 -> "transition"
       [] i = 1 -> "done_retract"
       [] i = 2 -> "done_unique_terminal"]

\* goto* dispatch_table[new_state >> state_data_bits]
ComputedGoto(s) ==
  IF ShiftRight(s, state_data_bits) \in DOMAIN dispatch_table
  THEN {dispatch_table[ShiftRight(s, state_data_bits)]}
  ELSE Labels \ {"dispatch"}

TableRead(t, i) == [table |-> t, index |-> i]

\* The lexer right after construction on one of the buffers B.
InitOn(B) ==
  /\ buffer \in B
  /\ computed_goto \in BOOLEAN
  /\ input_ = 1
  /\ last_token_ = [type |-> NoToken, end |-> 1]
  /\ pc = "ready"
  /\ input = 1
  /\ old_state = Uninit
  /\ new_state = Uninit
  /\ begin = 1
  /\ reads = << >>
  /\ accesses = << >>
  /\ labels = << >>
  /\ AnalyzeTraceNotRun

\* A run of a single lexer has no further instances.
NoLexers == << >>

Init == InitOn(Buffers(MaxLen)) /\ lexers = NoLexers

\* Entry of try_parse_current_token up to the first goto: the first byte's
\* class is the starting state. The surrounding lexer calls with l->input_
\* inside the input, before the terminating null byte.
FirstLookup ==
  /\ pc \in {"ready", "returned"}
  /\ input_ < Len(buffer)
  /\ begin' = input_
  /\ old_state' = Uninit
  /\ reads' = <<input_>>
  /\ labels' = << >>
  /\ \E b \in ReadByte(input_) :
       /\ new_state' = character_class_table[b]
       /\ accesses' = <<TableRead("character_class_table", <<b>>)>>
       /\ IF character_class_table[b] = retract
          THEN \* QLJS_ASSERT(new_state != lex_tables::state::retract)
               /\ pc' = "aborted"
               /\ input' = input_
          ELSE /\ input' = input_ + 1
               /\ IF is_initial_state_terminal(character_class_table[b])
                  THEN IF computed_goto
                       THEN pc' \in ComputedGoto(character_class_table[b])
                       ELSE pc' = "dispatch"
                  ELSE pc' = "transition"
  /\ UNCHANGED trace_vars
  /\ UNCHANGED << lexers, buffer, computed_goto, input_, last_token_ >>

\* transition that saves old_state after the table lookup instead of before.
Transition_late_old_state ==
  /\ pc = "transition"
  /\ input' = input + 1
  /\ reads' = Append(reads, input)
  /\ labels' = Append(labels, "transition")
  /\ \E b \in ReadByte(input) :
       \E ns \in TransitionLookup(character_class_table[b], new_state) :
         /\ new_state' = ns
         /\ old_state' = ns
         /\ accesses' = accesses \o
              << TableRead("character_class_table", <<b>>),
                 TableRead("transition_table",
                           <<character_class_table[b], new_state>>) >>
         /\ IF computed_goto
            THEN pc' \in ComputedGoto(ns)
            ELSE IF is_terminal_state(ns)
                 THEN pc' = "dispatch"
                 ELSE pc' = "transition"
  /\ UNCHANGED trace_vars
  /\ UNCHANGED << lexers, buffer, computed_goto, input_, last_token_, begin >>

\* transition that stores the local cursor in l->input_ at every step.
Transition_writes_cursor ==
  /\ pc = "transition"
  /\ old_state' = new_state
  /\ input' = input + 1
  /\ input_' = input + 1
  /\ reads' = Append(reads, input)
  /\ labels' = Append(labels, "transition")
  /\ \E b \in ReadByte(input) :
       \E ns \in TransitionLookup(character_class_table[b], new_state) :
         /\ new_state' = ns
         /\ accesses' = accesses \o
              << TableRead("character_class_table", <<b>>),
                 TableRead("transition_table",
                           <<character_class_table[b], new_state>>) >>
         /\ IF computed_goto
            THEN pc' \in ComputedGoto(ns)
            ELSE IF is_terminal_state(ns)
                 THEN pc' = "dispatch"
                 ELSE pc' = "transition"
  /\ UNCHANGED trace_vars
  /\ UNCHANGED << lexers, buffer, computed_goto, last_token_, begin >>

\* transition: { ... }
Transition ==
  /\ pc = "transition"
  /\ old_state' = new_state
  /\ input' = input + 1
  /\ reads' = Append(reads, input)
  /\ labels' = Append(labels, "transition")
  /\ \E b \in ReadByte(input) :
       \E ns \in TransitionLookup(character_class_table[b], new_state) :
         /\ new_state' = ns
         /\ accesses' = accesses \o
              << TableRead("character_class_table", <<b>>),
                 TableRead("transition_table",
                           <<character_class_table[b], new_state>>) >>
         /\ IF computed_goto
            THEN pc' \in ComputedGoto(ns)
            ELSE IF is_terminal_state(ns)
                 THEN pc' = "dispatch"
                 ELSE pc' = "transition"
  /\ UNCHANGED trace_vars
  /\ UNCHANGED << lexers, buffer, computed_goto, input_, last_token_, begin >>

\* dispatch whose case 2 jumps to done_retract.
Dispatch_done_retracts ==
  /\ pc = "dispatch"
  /\ pc' = CASE ShiftRight(new_state, state_data_bits) = 0 -> "transition"
             [] ShiftRight(new_state, state_data_bits) = 1 -> "done_retract"
             [] ShiftRight(new_state, state_data_bits) = 2 -> "done_retract"
             [] OTHER -> "done_unique_terminal"
  /\ UNCHANGED trace_vars
  /\ UNCHANGED << lexers, buffer, computed_goto, input_, last_token_, input,
                  old_state, new_state, begin, reads, accesses, labels >>

\* dispatch: { switch (new_state >> state_data_bits) ... } of the build
\* without computed goto; a value without a case leaves the switch and falls
\* into done_unique_terminal.
Dispatch ==
  /\ pc = "dispatch"
  /\ pc' = CASE ShiftRight(new_state, state_data_bits) = 0 -> "transition"
             [] ShiftRight(new_state, state_data_bits) = 1 -> "done_retract"
             [] ShiftRight(new_state, state_data_bits) = 2 ->
                  "done_unique_terminal"
             [] OTHER -> "done_unique_terminal"
  /\ UNCHANGED trace_vars
  /\ UNCHANGED << lexers, buffer, computed_goto, input_, last_token_, input,
                  old_state, new_state, begin, reads, accesses, labels >>

\* done_unique_terminal: { ... return true; }
DoneUniqueTerminal ==
  /\ pc = "done_unique_terminal"
  /\ \E t \in TokenLookup(BitAndMask(new_state)) :
       last_token_' = [type |-> t, end |-> input]
  /\ input_' = input
  /\ accesses' =
       Append(accesses, TableRead("state_to_token", <<BitAndMask(new_state)>>))
  /\ labels' = Append(labels, "done_unique_terminal")
  /\ pc' = "returned"
  /\ UNCHANGED trace_vars
  /\ UNCHANGED << lexers, buffer, computed_goto, input, old_state, new_state, begin,
                  reads >>

\* done_retract without "input -= 1".
DoneRetract_no_pushback ==
  /\ pc = "done_retract"
  /\ input' = input
  /\ labels' = Append(labels, "done_retract")
  /\ \E ns \in (IF old_state = Uninit THEN Uint8 ELSE {old_state}) :
       /\ new_state' = ns
       /\ IF ShiftRight(ns, state_data_bits) \in {0, 2}
          THEN pc' = "done_unique_terminal"
          ELSE pc' = "aborted"
  /\ UNCHANGED trace_vars
  /\ UNCHANGED << lexers, buffer, computed_goto, input_, last_token_, old_state,
                  begin, reads, accesses >>

\* done_retract that pushes the cursor back by two bytes.
DoneRetract_twice ==
  /\ pc = "done_retract"
  /\ input' = input - 2
  /\ labels' = Append(labels, "done_retract")
  /\ \E ns \in (IF old_state = Uninit THEN Uint8 ELSE {old_state}) :
       /\ new_state' = ns
       /\ IF ShiftRight(ns, state_data_bits) \in {0, 2}
          THEN pc' = "done_unique_terminal"
          ELSE pc' = "aborted"
  /\ UNCHANGED trace_vars
  /\ UNCHANGED << lexers, buffer, computed_goto, input_, last_token_, old_state,
                  begin, reads, accesses >>

\* done_retract: { ... goto done_unique_terminal; }
DoneRetract ==
  /\ pc = "done_retract"
  /\ input' = input - 1
  /\ labels' = Append(labels, "done_retract")
  /\ \E ns \in (IF old_state = Uninit THEN Uint8 ELSE {old_state}) :
       /\ new_state' = ns
       /\ IF ShiftRight(ns, state_data_bits) \in {0, 2}
          THEN pc' = "done_unique_terminal"
          ELSE \* QLJS_ASSERT(new_dispatcher == 2 || new_dispatcher == 0)
               pc' = "aborted"
  /\ UNCHANGED trace_vars
  /\ UNCHANGED << lexers, buffer, computed_goto, input_, last_token_, old_state,
                  begin, reads, accesses >>

Next ==
  \/ FirstLookup
  \/ Transition
  \/ Dispatch
  \/ DoneUniqueTerminal
  \/ DoneRetract

Spec == Init /\ [][Next]_vars

\* ------------------------------------------------------------ the lexicon
\* The 28 operator spellings and the token kind each one stands for.
Lexicon ==
  { << <<ch_bang>>, "bang" >>,
    << <<ch_percent>>, "percent" >>,
    << <<ch_ampersand>>, "ampersand" >>,
    << <<ch_plus>>, "plus" >>,
    << <<ch_equal>>, "equal" >>,
    << <<ch_greater>>, "greater" >>,
    << <<ch_circumflex>>, "circumflex" >>,
    << <<ch_pipe>>, "pipe" >>,
    << <<ch_bang, ch_equal>>, "bang_equal" >>,
    << <<ch_ampersand, ch_ampersand>>, "ampersand_ampersand" >>,
    << <<ch_equal, ch_equal>>, "equal_equal" >>,
    << <<ch_greater, ch_greater>>, "greater_greater" >>,
    << <<ch_pipe, ch_pipe>>, "pipe_pipe" >>,
    << <<ch_greater, ch_greater, ch_greater>>, "greater_greater_greater" >>,
    << <<ch_percent, ch_equal>>, "percent_equal" >>,
    << <<ch_ampersand, ch_equal>>, "ampersand_equal" >>,
    << <<ch_plus, ch_plus>>, "plus_plus" >>,
    << <<ch_plus, ch_equal>>, "plus_equal" >>,
    << <<ch_equal, ch_greater>>, "equal_greater" >>,
    << <<ch_greater, ch_equal>>, "greater_equal" >>,
    << <<ch_circumflex, ch_equal>>, "circumflex_equal" >>,
    << <<ch_pipe, ch_equal>>, "pipe_equal" >>,
    << <<ch_bang, ch_equal, ch_equal>>, "bang_equal_equal" >>,
    << <<ch_ampersand, ch_ampersand, ch_equal>>,
       "ampersand_ampersand_equal" >>,
    << <<ch_equal, ch_equal, ch_equal>>, "equal_equal_equal" >>,
    << <<ch_greater, ch_greater, ch_equal>>, "greater_greater_equal" >>,
    << <<ch_pipe, ch_pipe, ch_equal>>, "pipe_pipe_equal" >>,
    << <<ch_greater, ch_greater, ch_greater, ch_equal>>,
       "greater_greater_greater_equal" >> }

Spellings == {e[1] : e \in Lexicon}

KindOf(sp) == (CHOOSE e \in Lexicon : e[1] = sp)[2]

\* Length of the longest spelling of the lexicon.
LongestSpelling ==
  CHOOSE n \in 1..8 :
    /\ \E sp \in Spellings : Len(sp) = n
    /\ \A sp \in Spellings : Len(sp) <= n

\* The k bytes of the buffer from position p on (cut at the buffer's end).
BytesAt(p, k) ==
  SubSeq(buffer, p, IF p + k - 1 <= Len(buffer) THEN p + k - 1 ELSE Len(buffer))

\* The spelling sp stands at position p and the byte after it does not
\* extend it to a longer spelling.
StandsAlone(sp, p) ==
  /\ BytesAt(p, Len(sp)) = sp
  /\ BytesAt(p, Len(sp) + 1) \notin Spellings

\* A call has been made: begin is the position it started at.
Called == pc # "ready"

\* The call's first byte is one of the lexicon's leading characters.
ValidStart == character_class_table[buffer[begin]] # other_character_class

CatchAllStart == character_class_table[buffer[begin]] = other_character_class

\* Bytes consumed by the call that has returned.
Consumed == last_token_.end - begin

\* C1: maximal munch. After a call whose first byte is not of the catch-all
\* class, the consumed bytes spell a lexicon entry, and no longer prefix of
\* the input at the starting position is a lexicon entry.
MaximalMunch ==
  (pc = "returned" /\ ValidStart) =>
    /\ Consumed \in 1..LongestSpelling
    /\ BytesAt(begin, Consumed) \in Spellings
    /\ \A k \in (Consumed + 1)..LongestSpelling :
         BytesAt(begin, k) \notin Spellings
    /\ BytesAt(begin, Consumed + 1) \notin Spellings

\* A three-byte entry was returned although a shorter entry is a token too.
MaximalMunchWitness ==
  /\ pc = "returned"
  /\ ValidStart
  /\ Consumed = 3
  /\ BytesAt(begin, 4) = <<ch_greater, ch_greater, ch_greater, ch_greater>>

\* C2: exhaustiveness. When a spelling of the lexicon stands at the starting
\* position, followed by a byte that does not extend it, the call stores the
\* token kind of exactly that spelling in last_token_.type.
Exhaustiveness ==
  \A sp \in Spellings :
    (pc = "returned" /\ StandsAlone(sp, begin)) => last_token_.type = KindOf(sp)

ExhaustivenessWitness ==
  /\ pc = "returned"
  /\ StandsAlone(<<ch_pipe, ch_pipe, ch_equal>>, begin)
  /\ last_token_.type = "pipe_pipe_equal"

\* The entries that are a proper prefix of a longer entry.
ProperPrefixSpellings ==
  {sp \in Spellings : \E b \in Uint8 : Append(sp, b) \in Spellings}

\* C3: retract correctness. An entry that is a proper prefix of a longer
\* entry, followed by a byte that does not extend it, yields that entry's
\* token kind, and l->input_ and l->last_token_.end both point exactly past
\* the entry: the extra byte is not consumed.
RetractCorrectness ==
  \A sp \in ProperPrefixSpellings :
    (pc = "returned" /\ StandsAlone(sp, begin)) =>
      /\ last_token_.type = KindOf(sp)
      /\ input_ = begin + Len(sp)
      /\ last_token_.end = begin + Len(sp)
      /\ reads[Len(reads)] = begin + Len(sp)
      /\ input = reads[Len(reads)]

RetractCorrectnessWitness ==
  /\ pc = "returned"
  /\ StandsAlone(<<ch_greater, ch_greater>>, begin)
  /\ buffer[begin + 2] = ch_bang
  /\ input_ = begin + 2
  /\ labels = <<"transition", "transition", "done_retract", "done_unique_terminal">>

\* The set of elements of a sequence.
Range(f) == {f[i] : i \in DOMAIN f}

\* C4: a starting byte of the catch-all class resolves at once: the call
\* reads one byte only, never executes transition, never consults
\* transition_table, and consumes exactly one byte.
CatchAllResolvesImmediately ==
  (Called /\ CatchAllStart) =>
    /\ reads = <<begin>>
    /\ "transition" \notin Range(labels)
    /\ \A i \in DOMAIN accesses : accesses[i].table # "transition_table"
    /\ pc \in {"dispatch", "done_unique_terminal", "returned"}
    /\ pc = "returned" => Consumed = 1

\* C5: a starting byte of the catch-all class fails the assertion on the
\* starting state, so the call stops there and produces no token.
CatchAllStartAsserts ==
  (Called /\ CatchAllStart) => pc = "aborted"

\* First position after p that holds a byte of the catch-all class.
FirstCatchAllAfter(p) ==
  CHOOSE q \in (p + 1)..Len(buffer) :
    /\ character_class_table[buffer[q]] = other_character_class
    /\ \A r \in (p + 1)..(q - 1) :
         character_class_table[buffer[r]] # other_character_class

\* C6: sentinel safety. A call whose first byte is not of the catch-all class
\* reads no position after the first catch-all byte that follows its start,
\* and the read of that byte yields retract and is the call's last read.
SentinelSafety ==
  (Called /\ ValidStart) =>
    /\ \A i \in DOMAIN reads :
         /\ reads[i] \in 1..Len(buffer)
         /\ reads[i] <= FirstCatchAllAfter(begin)
    /\ \A i \in DOMAIN reads :
         reads[i] = FirstCatchAllAfter(begin) =>
           /\ i = Len(reads)
           /\ \/ new_state = retract /\ pc \in {"dispatch", "done_retract"}
              \/ "done_retract" \in Range(labels)

\* The scan ran into a catch-all byte that stands before the terminating null.
SentinelSafetyWitness ==
  /\ pc = "done_retract"
  /\ ValidStart
  /\ Len(reads) = 3
  /\ reads[3] = FirstCatchAllAfter(begin)
  /\ buffer[reads[3]] = ch_tilde
  /\ reads[3] + 1 < Len(buffer)

\* C7: bounded consumption. Every call that has returned consumed at least
\* one byte and at most four.
BoundedConsumption ==
  pc = "returned" => (1 <= Consumed /\ Consumed <= 4)

BoundedConsumptionWitness ==
  /\ pc = "returned"
  /\ Consumed = 4
  /\ last_token_.type = "greater_greater_greater_equal"

\* The steps of a call, once entered, are taken: the function is straight
\* sequential code.
FairInit == InitOn(Buffers(MaxFairLen)) /\ lexers = NoLexers

FairSpec ==
  /\ FairInit
  /\ [][Next]_vars
  /\ WF_vars(Transition)
  /\ WF_vars(Dispatch)
  /\ WF_vars(DoneUniqueTerminal)
  /\ WF_vars(DoneRetract)

\* States a call has looked up in transition_table, in order.
StatesLeft ==
  [i \in {j \in DOMAIN accesses : accesses[j].table = "transition_table"} |->
     accesses[i].index[2]]

\* C8: termination. Every call that has entered the function reaches
\* done_unique_terminal and returns; it makes at most 3 transition-table
\* steps, reads at most 4 bytes, and leaves no state twice.
Termination ==
  /\ [](Called =>
          /\ Len(reads) <= 4
          /\ Cardinality(DOMAIN StatesLeft) <= 3
          /\ \A i, j \in DOMAIN StatesLeft :
               StatesLeft[i] = StatesLeft[j] => i = j
          /\ pc = "returned" =>
               labels[Len(labels)] = "done_unique_terminal")
  /\ (pc \in Labels) ~> (pc = "returned")

TerminationWitness ==
  /\ pc = "returned"
  /\ Len(reads) = 4
  /\ Cardinality(DOMAIN StatesLeft) = 3
  /\ labels[Len(labels)] = "done_unique_terminal"

\* ----------------------------------------------- the transition graph
Classes == 0..(character_class_count - 1)
InputStates == 0..(input_state_count - 1)
InitialStates == {bang, percent, ampersand, plus, equal, greater, circumflex, pipe}
ContinuationStates ==
  {bang_equal, ampersand_ampersand, equal_equal, greater_greater, pipe_pipe,
   greater_greater_greater}
DoneStates ==
  {done_percent_equal, done_ampersand_equal, done_plus_plus, done_plus_equal,
   done_equal_greater, done_greater_equal, done_circumflex_equal,
   done_pipe_equal, done_bang_equal_equal, done_ampersand_ampersand_equal,
   done_equal_equal_equal, done_greater_greater_equal, done_pipe_pipe_equal,
   done_greater_greater_greater_equal}
Nodes == InitialStates \cup ContinuationStates \cup DoneStates

\* The (class, state) pairs whose entry is the state s.
Sources(s) ==
  {cs \in Classes \X InputStates : transition_table[cs[1]][cs[2]] = s}

\* The states one edge away from a state of S.
Successors(S) ==
  {transition_table[cs[1]][cs[2]] : cs \in Classes \X (S \cap InputStates)}
    \ {retract}

RECURSIVE ReachableIn(_, _)
\* The states reached from the states S by 1..n edges.
ReachableIn(S, n) ==
  IF n = 0 THEN {}
  ELSE Successors(S) \cup ReachableIn(Successors(S), n - 1)

RECURSIVE HistoryIn(_, _)
\* The classes of the bytes that lead to the state s, first byte first,
\* following at most n edges backwards.
HistoryIn(s, n) ==
  IF s \in InitialStates \/ n = 0 \/ Sources(s) = {} THEN <<s>>
  ELSE LET cs == CHOOSE x \in Sources(s) : TRUE
       IN Append(HistoryIn(cs[2], n - 1), cs[1])

History == [s \in Nodes |-> HistoryIn(s, Cardinality(Nodes))]

\* The non-retract entries of transition_table form a graph on the 8 initial,
\* 6 continuation and 14 done states that has no cycle, and every
\* continuation or done state is the entry of exactly one (class, state) pair.
TransitionGraphIsTree ==
  /\ Cardinality(InitialStates) = 8
  /\ Cardinality(ContinuationStates) = 6
  /\ Cardinality(DoneStates) = 14
  /\ \A c \in Classes : \A t \in InputStates :
       transition_table[c][t] \in Nodes \cup {retract}
  /\ \A n \in Nodes : n \notin ReachableIn({n}, Cardinality(Nodes))
  /\ \A s \in ContinuationStates \cup DoneStates : Cardinality(Sources(s)) = 1

RetractHasPreviousState ==
  /\ pc = "done_retract" =>
       /\ old_state # Uninit
       /\ old_state # retract
       /\ "transition" \in Range(labels)
       /\ ShiftRight(old_state, state_data_bits) \in {0, 2}
       /\ BitAndMask(old_state) \in DOMAIN state_to_token
       /\ old_state = accesses[Len(accesses)].index[2]
  /\ pc # "aborted"

RetractHasPreviousStateWitness ==
  /\ pc = "done_retract"
  /\ old_state = greater_greater
  /\ new_state = retract

\* The single lexer again, for the properties of its steps and table reads.
ScanSpec == Init /\ [][Next]_vars

\* The reads of one table among the table reads of the current call.
AccessesOf(t) == SelectSeq(accesses, LAMBDA a : a.table = t)

\* C11: resolver precondition. state_to_token is read at most once per call,
\* as the call's last table read, and exactly once when the call has
\* returned; when done_unique_terminal is about to read it, at least one byte
\* has been consumed and the state to resolve is not retract.
ResolverPrecondition ==
  /\ Len(AccessesOf("state_to_token")) <= 1
  /\ \A i \in DOMAIN accesses :
       accesses[i].table = "state_to_token" =>
         (i = Len(accesses) /\ pc = "returned")
  /\ pc = "returned" =>
       /\ Len(AccessesOf("state_to_token")) = 1
       /\ accesses[Len(accesses)].index = <<BitAndMask(new_state)>>
       /\ new_state # retract
       /\ last_token_.end - begin >= 1
  /\ pc = "done_unique_terminal" =>
       /\ new_state # retract
       /\ new_state \in Nodes
       /\ input - begin >= 1
       /\ Len(AccessesOf("state_to_token")) = 0

\* The state resolved after a retract is the state held before the failed
\* transition.
ResolverPreconditionWitness ==
  /\ pc = "returned"
  /\ "done_retract" \in Range(labels)
  /\ accesses[Len(accesses)] = TableRead("state_to_token", <<greater_greater>>)
  /\ Len(AccessesOf("state_to_token")) = 1

\* The entry of transition_table that a recorded table read returned.
EntryRead(a) == transition_table[a.index[1]][a.index[2]]

\* C12: done stops the scan. The k-th transition step reads the byte at
\* reads[k + 1]. When its entry is a done state it is the call's last read,
\* nothing is pushed back and the reported end is one past that byte; when
\* its entry is a continuation state the byte is consumed and the byte after
\* it is the next one classified.
DoneStopsScan ==
  LET steps == AccessesOf("transition_table")
  IN \A k \in DOMAIN steps :
       /\ EntryRead(steps[k]) \in DoneStates =>
            /\ k = Len(steps)
            /\ Len(reads) = k + 1
            /\ "done_retract" \notin Range(labels)
            /\ pc \in {"dispatch", "done_unique_terminal", "returned"}
            /\ input = reads[k + 1] + 1
            /\ pc = "returned" =>
                 /\ last_token_.end = reads[k + 1] + 1
                 /\ input_ = reads[k + 1] + 1
       /\ EntryRead(steps[k]) \in ContinuationStates =>
            /\ k = Len(steps) => (pc = "transition" /\ input = reads[k + 1] + 1)
            /\ k < Len(steps) =>
                 /\ reads[k + 2] = reads[k + 1] + 1
                 /\ steps[k + 1].index[2] = EntryRead(steps[k])
                 /\ steps[k + 1].index[1] =
                      character_class_table[buffer[reads[k + 2]]]

\* ">>=": a continuation state, then a done state that ends the call.
DoneStopsScanWitness ==
  /\ pc = "returned"
  /\ Len(AccessesOf("transition_table")) = 2
  /\ EntryRead(AccessesOf("transition_table")[1]) = greater_greater
  /\ EntryRead(AccessesOf("transition_table")[2]) = done_greater_greater_equal
  /\ last_token_.end = begin + 3
  /\ last_token_.end < Len(buffer)

\* C13: narrow write set, no partial results. No step changes the buffer;
\* l->input_ and l->last_token_ change in no step but done_unique_terminal,
\* which writes them together (input_ = last_token_.end = the local cursor)
\* and returns; the call returns from nowhere else.
NarrowWriteSet ==
  [][/\ buffer' = buffer
     /\ pc # "done_unique_terminal" =>
          (input_' = input_ /\ last_token_' = last_token_)
     /\ pc = "done_unique_terminal" =>
          /\ pc' = "returned"
          /\ input_' = input
          /\ last_token_'.end = input
          /\ last_token_'.type \in TokenTypes
     /\ pc' = "returned" => pc = "done_unique_terminal"]_vars

\* A second call has returned: the record changed from the first token to
\* the second in one step.
NarrowWriteSetWitness ==
  /\ pc = "returned"
  /\ begin > 1
  /\ Len(reads) = 3
  /\ input_ = last_token_.end
  /\ input_ = begin + 2

\* The characters of the eight symbol classes, in class order.
SymbolBytes ==
  << ch_bang, ch_percent, ch_ampersand, ch_plus, ch_equal, ch_greater,
     ch_circumflex, ch_pipe >>

\* The class a byte should have: its place among the symbol characters, or
\* the catch-all class.
ExpectedClass(b) ==
  IF \E i \in DOMAIN SymbolBytes : SymbolBytes[i] = b
  THEN (CHOOSE i \in DOMAIN SymbolBytes : SymbolBytes[i] = b) - 1
  ELSE other_character_class

\* character_class_table has one entry, a class in 0..8, for each of the 256
\* byte values: the class of its symbol for the eight symbol characters, the
\* catch-all class for the 248 others, the null byte among them.
ClassifierIsTotal ==
  /\ DOMAIN character_class_table = 0..255
  /\ \A b \in 0..255 : character_class_table[b] \in 0..8
  /\ character_class_table[ch_bang] = bang
  /\ character_class_table[ch_percent] = percent
  /\ character_class_table[ch_ampersand] = ampersand
  /\ character_class_table[ch_plus] = plus
  /\ character_class_table[ch_equal] = equal
  /\ character_class_table[ch_greater] = greater
  /\ character_class_table[ch_circumflex] = circumflex
  /\ character_class_table[ch_pipe] = pipe
  /\ Cardinality({b \in 0..255 :
                    character_class_table[b] = other_character_class}) = 248
  /\ character_class_table[ch_null] = other_character_class
  /\ \A b \in 0..255 : character_class_table[b] = ExpectedClass(b)

StateSpelling ==
  [s \in Nodes |->
     (CHOOSE e \in Lexicon : e[2] = state_to_token[BitAndMask(s)])[1]]

\* For every class c and input state s: when spelling(s) followed by the
\* character of c is a lexicon entry, the table entry is the state of that
\* entry, a continuation state if the entry is a proper prefix of a longer
\* one and a done state if not; in every other case, and in the whole row of
\* the catch-all class, it is retract. No entry is an initial state.
TransitionTableFollowsPolicy ==
  \A c \in Classes : \A s \in InputStates :
    LET entry == transition_table[c][s]
        extends ==
          /\ c # other_character_class
          /\ Append(StateSpelling[s], SymbolBytes[c + 1]) \in Spellings
    IN /\ entry \notin InitialStates
       /\ (entry = retract) <=> ~extends
       /\ c = other_character_class =>
            /\ entry = retract
            /\ \A b \in Uint8 :
                 character_class_table[b] = c =>
                   Append(StateSpelling[s], b) \notin Spellings
       /\ extends =>
            /\ entry \in ContinuationStates \cup DoneStates
            /\ StateSpelling[entry] = Append(StateSpelling[s], SymbolBytes[c + 1])
            /\ (entry \in ContinuationStates) <=>
                 (StateSpelling[entry] \in ProperPrefixSpellings)
            /\ (entry \in DoneStates) <=>
                 (StateSpelling[entry] \notin ProperPrefixSpellings)

\* C17: transition policy. The table follows the policy, so the state a
\* transition step of a call started on a symbol byte yields is retract
\* exactly when the bytes read so far are not a lexicon entry.
TransitionPolicy ==
  /\ TransitionTableFollowsPolicy
  /\ (Called /\ ValidStart /\ Len(reads) >= 2
        /\ pc \in {"transition", "dispatch", "done_retract", "done_unique_terminal"}
        /\ "done_retract" \notin Range(labels)) =>
       /\ (new_state = retract) <=> (BytesAt(begin, input - begin) \notin Spellings)
       /\ new_state # retract =>
            StateSpelling[new_state] = BytesAt(begin, input - begin)

\* '>' after ">>>" has no continuation.
TransitionPolicyWitness ==
  /\ pc = "done_retract"
  /\ BytesAt(begin, 4) = <<ch_greater, ch_greater, ch_greater, ch_greater>>
  /\ accesses[Len(accesses)] =
       TableRead("transition_table", <<greater, greater_greater_greater>>)
  /\ new_state = retract

\* is_terminal_state holds of the 14 done states and of retract, which have
\* no column in transition_table, and of none of the 14 input states, each
\* of which has an entry other than retract in its column.
TerminalStatesHaveNoTransition ==
  /\ \A s \in DoneStates \cup {retract} :
       is_terminal_state(s) /\ s \notin InputStates
  /\ \A s \in InputStates :
       /\ ~is_terminal_state(s)
       /\ \E c \in Classes : transition_table[c][s] # retract
  /\ InputStates = InitialStates \cup ContinuationStates

\* C19: is_terminal_state. It separates the states without transitions from
\* the input states, so in the build without computed goto a transition step
\* goes to dispatch exactly when its entry is a done state or retract.
IsTerminalState ==
  /\ TerminalStatesHaveNoTransition
  /\ (~computed_goto /\ Len(reads) >= 2 /\ pc \in {"dispatch", "transition"}) =>
       /\ pc = "dispatch" <=> new_state \in DoneStates \cup {retract}
       /\ pc = "transition" <=> new_state \in InputStates
       /\ is_terminal_state(new_state) <=> pc = "dispatch"

IsTerminalStateWitness ==
  /\ ~computed_goto
  /\ pc = "transition"
  /\ Len(reads) = 3
  /\ new_state = greater_greater_greater
  /\ ~is_terminal_state(new_state)

\* C20: table accesses stay in range. Every read of character_class_table
\* uses a byte value, every read of transition_table a row in 0..8 (never
\* the tenth row) and a column in 0..13, every read of state_to_token an
\* index in 0..27.
AccessesInRange ==
  \A i \in DOMAIN accesses :
    /\ accesses[i].table = "character_class_table" =>
         accesses[i].index[1] \in 0..255
    /\ accesses[i].table = "transition_table" =>
         /\ accesses[i].index[1] \in 0..8
         /\ accesses[i].index[1] # character_class_count
         /\ accesses[i].index[2] \in 0..13
         /\ accesses[i].index[2] < input_state_count
    /\ accesses[i].table = "state_to_token" =>
         /\ accesses[i].index[1] \in 0..27
         /\ accesses[i].index[1] \in DOMAIN state_to_token

\* The last row and the last column that are ever read, and the last token.
AccessesInRangeWitness ==
  /\ pc = "returned"
  /\ \E i \in DOMAIN accesses :
       accesses[i] = TableRead("transition_table",
                               <<other_character_class, greater_greater_greater>>)
  /\ accesses[Len(accesses)] =
       TableRead("state_to_token", <<greater_greater_greater>>)

\* ------------------------------------------ several lexer instances
\* Longest input of an instance of a concurrent run.
MaxConcLen == 2

LexerIds == {1, 2}

\* The bytes the inputs of a concurrent run are drawn from.
ConcBytes == {ch_greater, ch_equal, ch_tilde}

ConcBuffers ==
  {body \o <<ch_null>> :
     body \in UNION {[1..k -> ConcBytes] : k \in 1..MaxConcLen}}

\* A lexer instance with its own buffer, build and cursor, before its first
\* call of try_parse_current_token; the fields are the variables of a single
\* lexer, start is the cursor the surrounding lexer has moved the instance
\* to, its token record still that of construction.
InitialLexers ==
  UNION {
    { [buffer |-> buf, computed_goto |-> cg, input_ |-> p,
       last_token_ |-> [type |-> NoToken, end |-> 1], pc |-> "ready",
       input |-> p, old_state |-> Uninit, new_state |-> Uninit, begin |-> p,
       labels |-> << >>, start |-> p] :
      p \in 1..(Len(buf) - 1), cg \in BOOLEAN } :
    buf \in ConcBuffers }

\* *p for a pointer p into the buffer of the instance l.
LexReadByte(l, p) == IF p \in 1..Len(l.buffer) THEN {l.buffer[p]} ELSE Uint8

\* Where the instance l goes for the state s after a transition step.
LexAfterTransition(l, s) ==
  IF l.computed_goto THEN ComputedGoto(s)
  ELSE IF is_terminal_state(s) THEN {"dispatch"} ELSE {"transition"}

\* Entry of try_parse_current_token up to the first goto, run by the
\* instance l: the instances l can become.
LexFirstLookup(l) ==
  IF l.pc \in {"ready", "returned"} /\ l.input_ < Len(l.buffer)
  THEN UNION {
         { [l EXCEPT !.begin = l.input_,
                     !.old_state = Uninit,
                     !.labels = << >>,
                     !.new_state = character_class_table[b],
                     !.input = IF character_class_table[b] = retract
                               THEN l.input_ ELSE l.input_ + 1,
                     !.pc = t] :
           t \in IF character_class_table[b] = retract THEN {"aborted"}
                 ELSE IF is_initial_state_terminal(character_class_table[b])
                      THEN IF l.computed_goto
                           THEN ComputedGoto(character_class_table[b])
                           ELSE {"dispatch"}
                      ELSE {"transition"} } :
         b \in LexReadByte(l, l.input_) }
  ELSE {}

\* transition: { ... } run by the instance l.
LexTransition(l) ==
  IF l.pc = "transition"
  THEN UNION {
         UNION {
           { [l EXCEPT !.old_state = l.new_state,
                       !.new_state = ns,
                       !.input = l.input + 1,
                       !.labels = Append(l.labels, "transition"),
                       !.pc = t] :
             t \in LexAfterTransition(l, ns) } :
           ns \in TransitionLookup(character_class_table[b], l.new_state) } :
         b \in LexReadByte(l, l.input) }
  ELSE {}

\* dispatch: { switch ... } run by the instance l.
LexDispatch(l) ==
  IF l.pc = "dispatch"
  THEN { [l EXCEPT !.pc =
            CASE ShiftRight(l.new_state, state_data_bits) = 0 -> "transition"
              [] ShiftRight(l.new_state, state_data_bits) = 1 -> "done_retract"
              [] ShiftRight(l.new_state, state_data_bits) = 2 ->
                   "done_unique_terminal"
              [] OTHER -> "done_unique_terminal"] }
  ELSE {}

\* done_unique_terminal that advances last_token_.end by the bytes consumed
\* instead of assigning the cursor to it.
LexDoneUniqueTerminal_relative_end(l) ==
  IF l.pc = "done_unique_terminal"
  THEN { [l EXCEPT !.last_token_ =
                     [type |-> t,
                      end |-> l.last_token_.end + (l.input - l.input_)],
                   !.input_ = l.input,
                   !.labels = Append(l.labels, "done_unique_terminal"),
                   !.pc = "returned"] :
         t \in TokenLookup(BitAndMask(l.new_state)) }
  ELSE {}

\* done_unique_terminal: { ... } run by the instance l.
LexDoneUniqueTerminal(l) ==
  IF l.pc = "done_unique_terminal"
  THEN { [l EXCEPT !.last_token_ = [type |-> t, end |-> l.input],
                   !.input_ = l.input,
                   !.labels = Append(l.labels, "done_unique_terminal"),
                   !.pc = "returned"] :
         t \in TokenLookup(BitAndMask(l.new_state)) }
  ELSE {}

\* done_retract: { ... } run by the instance l.
LexDoneRetract(l) ==
  IF l.pc = "done_retract"
  THEN { [l EXCEPT !.input = l.input - 1,
                   !.new_state = ns,
                   !.labels = Append(l.labels, "done_retract"),
                   !.pc = IF ShiftRight(ns, state_data_bits) \in {0, 2}
                          THEN "done_unique_terminal" ELSE "aborted"] :
         ns \in IF l.old_state = Uninit THEN Uint8 ELSE {l.old_state} }
  ELSE {}

\* One step of try_parse_current_token run by the instance l.
LexerStep(l) ==
  LexFirstLookup(l) \cup LexTransition(l) \cup LexDispatch(l)
    \cup LexDoneUniqueTerminal(l) \cup LexDoneRetract(l)

\* The single lexer of Spec, seen as an instance.
ThisLexer ==
  [buffer |-> buffer, computed_goto |-> computed_goto, input_ |-> input_,
   last_token_ |-> last_token_, pc |-> pc, input |-> input,
   old_state |-> old_state, new_state |-> new_state, begin |-> begin,
   labels |-> labels, start |-> 1]

\* The steps of an instance are the steps of the single lexer: every step of
\* Spec is a step of LexerStep, and every step LexerStep allows is taken by
\* one of the actions.
InstanceStepsAreLexerSteps ==
  /\ [][ThisLexer' \in LexerStep(ThisLexer)]_vars
  /\ [](LexerStep(ThisLexer) # {} => ENABLED <<Next>>_vars)

\* The instance i takes a step to r; nothing else changes.
InstanceBecomes(i, r) ==
  /\ lexers' = [lexers EXCEPT ![i] = r]
  /\ UNCHANGED trace_vars
  /\ UNCHANGED << buffer, computed_goto, input_, last_token_, pc, input,
                  old_state, new_state, begin, reads, accesses, labels >>

\* The instances are interchangeable: they are numbered by their starting
\* position and, where that is equal, the computed-goto build first.
ConcInit ==
  /\ InitOn({<<ch_null>>})
  /\ computed_goto = FALSE
  /\ lexers \in [LexerIds -> InitialLexers]
  /\ \A i, j \in LexerIds :
       i < j =>
         \/ lexers[i].start < lexers[j].start
         \/ /\ lexers[i].start = lexers[j].start
            /\ lexers[i].computed_goto \/ ~lexers[j].computed_goto

ConcFirstLookup ==
  \E i \in LexerIds : \E r \in LexFirstLookup(lexers[i]) : InstanceBecomes(i, r)

\* A transition step that keeps the cursor in a variable all instances share.
ConcTransition_shared_cursor ==
  \E i \in LexerIds : \E r \in LexTransition(lexers[i]) :
    /\ lexers' = [j \in LexerIds |->
                    IF j = i THEN r ELSE [lexers[j] EXCEPT !.input = r.input]]
    /\ UNCHANGED trace_vars
    /\ UNCHANGED << buffer, computed_goto, input_, last_token_, pc, input,
                    old_state, new_state, begin, reads, accesses, labels >>

ConcTransition ==
  \E i \in LexerIds : \E r \in LexTransition(lexers[i]) : InstanceBecomes(i, r)

ConcDispatch ==
  \E i \in LexerIds : \E r \in LexDispatch(lexers[i]) : InstanceBecomes(i, r)

ConcDoneUniqueTerminal ==
  \E i \in LexerIds : \E r \in LexDoneUniqueTerminal(lexers[i]) :
    InstanceBecomes(i, r)

ConcDoneRetract ==
  \E i \in LexerIds : \E r \in LexDoneRetract(lexers[i]) : InstanceBecomes(i, r)

\* Any instance takes its next step: every interleaving of the instances.
ConcNext ==
  \/ ConcFirstLookup
  \/ ConcTransition
  \/ ConcDispatch
  \/ ConcDoneUniqueTerminal
  \/ ConcDoneRetract

ConcSpec == ConcInit /\ [][ConcNext]_vars

\* The instance l as it was constructed.
AsConstructed(l) ==
  [buffer |-> l.buffer, computed_goto |-> l.computed_goto, input_ |-> l.start,
   last_token_ |-> [type |-> NoToken, end |-> 1], pc |-> "ready",
   input |-> l.start, old_state |-> Uninit, new_state |-> Uninit,
   begin |-> l.start, labels |-> << >>, start |-> l.start]

RECURSIVE RunAlone(_, _, _)
\* The instance x run on its own, for at most n steps, up to the return of
\* the call that started at position b.
RunAlone(x, b, n) ==
  IF (x.pc = "returned" /\ x.begin = b) \/ n = 0 \/ LexerStep(x) = {} THEN x
  ELSE RunAlone(CHOOSE r \in LexerStep(x) : TRUE, b, n - 1)

\* What the call the instance l is in, or has returned from, gives when l
\* runs alone.
AloneOutcome(l) == RunAlone(AsConstructed(l), l.begin, 8 * Len(l.buffer))

\* C15: concurrent instances do not interfere. Under every interleaving, a
\* step of one instance is a step of that instance's own code and leaves
\* every other instance as it is, and each instance returns from a call with
\* the token kind and end position it gets when run alone.
NonInterference ==
  /\ [][\A i \in LexerIds :
          \/ lexers'[i] = lexers[i]
          \/ /\ lexers'[i] \in LexerStep(lexers[i])
             /\ \A j \in LexerIds \ {i} : lexers'[j] = lexers[j]]_vars
  /\ [](\A i \in LexerIds :
          lexers[i].pc = "returned" =>
            LET alone == AloneOutcome(lexers[i])
            IN /\ alone.pc = "returned"
               /\ lexers[i].last_token_ = alone.last_token_
               /\ lexers[i].input_ = alone.input_)

\* Both instances are in the middle of a call, on different buffers.
NonInterferenceWitness ==
  /\ lexers # NoLexers
  /\ lexers[1].pc = "transition"
  /\ Len(lexers[1].labels) = 1
  /\ lexers[2].pc = "done_retract"
  /\ lexers[2].begin > lexers[2].start
  /\ lexers[1].buffer # lexers[2].buffer

\* C16: determinism. Two instances of the same build that have returned from
\* a call started at the same offset of equal buffers hold the same token
\* kind and the same end position, whatever calls they made before.
Determinism ==
  lexers # NoLexers =>
    \A i, j \in LexerIds :
      ( /\ lexers[i].pc = "returned"
        /\ lexers[j].pc = "returned"
        /\ lexers[i].buffer = lexers[j].buffer
        /\ lexers[i].computed_goto = lexers[j].computed_goto
        /\ lexers[i].begin = lexers[j].begin ) =>
        /\ lexers[i].last_token_.type = lexers[j].last_token_.type
        /\ lexers[i].last_token_.end - lexers[i].begin =
             lexers[j].last_token_.end - lexers[j].begin

\* The same call made as an instance's first call and after an earlier call.
DeterminismWitness ==
  /\ lexers # NoLexers
  /\ lexers[1].pc = "returned"
  /\ lexers[2].pc = "returned"
  /\ lexers[1].buffer = lexers[2].buffer
  /\ lexers[1].computed_goto = lexers[2].computed_goto
  /\ lexers[1].begin = lexers[2].begin
  /\ lexers[1].start < lexers[2].start
  /\ lexers[2].start = lexers[2].begin
  /\ "done_retract" \in Range(lexers[1].labels)

\* The sequence a is an initial part of the sequence b.
IsPrefix(a, b) == Len(a) <= Len(b) /\ a = SubSeq(b, 1, Len(a))

\* C18: the two dispatch variants are equivalent. A computed-goto instance
\* and a portable instance in a call started at the same offset of equal
\* buffers execute the same labels in the same order, and return with the
\* same token kind and end position.
DispatchVariantsEquivalent ==
  lexers # NoLexers =>
    \A i, j \in LexerIds :
      ( /\ lexers[i].computed_goto
        /\ ~lexers[j].computed_goto
        /\ lexers[i].buffer = lexers[j].buffer
        /\ lexers[i].begin = lexers[j].begin
        /\ lexers[i].pc # "ready"
        /\ lexers[j].pc # "ready" ) =>
        /\ IsPrefix(lexers[i].labels, lexers[j].labels)
             \/ IsPrefix(lexers[j].labels, lexers[i].labels)
        /\ lexers[i].pc # "aborted" /\ lexers[j].pc # "aborted"
        /\ (lexers[i].pc = "returned" /\ lexers[j].pc = "returned") =>
             /\ lexers[i].labels = lexers[j].labels
             /\ lexers[i].last_token_ = lexers[j].last_token_
             /\ lexers[i].input_ = lexers[j].input_

DispatchVariantsEquivalentWitness ==
  /\ lexers # NoLexers
  /\ lexers[1].computed_goto
  /\ ~lexers[2].computed_goto
  /\ lexers[1].buffer = lexers[2].buffer
  /\ lexers[1].begin = lexers[2].begin
  /\ lexers[1].pc = "returned"
  /\ lexers[2].pc = "returned"
  /\ lexers[1].labels = <<"transition", "transition", "done_retract",
                          "done_unique_terminal">>

----
\* The plain symbol "~" of the header comment.

\* C21: a call whose first byte is '~' finds that byte in a symbol class of
\* its own, not in the catch-all class, and returns a token for "~" that is
\* one byte long.
TildeIsPlainSymbol ==
  (pc = "returned" /\ buffer[begin] = ch_tilde) =>
    /\ character_class_table[ch_tilde] # other_character_class
    /\ Consumed = 1
    /\ last_token_.type = "tilde"

----
\* The analyze-trace tool: main and parse_analyze_options.

\* Most command-line arguments of one run.
MaxArgs == 3

\* The digits strtoull knows, by value: "0" has value 0, "f" and "F" 15.
LowerDigits ==
  <<"0", "1", "2", "3", "4", "5", "6", "7", "8", "9",
    "a", "b", "c", "d", "e", "f">>

UpperDigits ==
  <<"0", "1", "2", "3", "4", "5", "6", "7", "8", "9",
    "A", "B", "C", "D", "E", "F">>

\* The value of the character c as a digit; 16 when it is no digit.
DigitValue(c) ==
  IF \E v \in 1..16 : LowerDigits[v] = c \/ UpperDigits[v] = c
  THEN (CHOOSE v \in 1..16 : LowerDigits[v] = c \/ UpperDigits[v] = c) - 1
  ELSE 16

\* ULLONG_MAX, written in base 10, 8 and 16.
UllongMaxDigits(base) ==
  CASE base = 10 ->
         <<1, 8, 4, 4, 6, 7, 4, 4, 0, 7, 3, 7, 0, 9, 5, 5, 1, 6, 1, 5>>
    [] base = 8 -> <<1>> \o [i \in 1..21 |-> 7]
    [] base = 16 -> [i \in 1..16 |-> 15]

\* The first position from i on whose character is not a digit of the base.
RECURSIVE DigitsEnd(_, _, _)
DigitsEnd(s, i, base) ==
  IF i <= Len(s) /\ DigitValue(s[i]) < base
  THEN DigitsEnd(s, i + 1, base)
  ELSE i

\* The first position from i on, before e, that does not hold a zero.
RECURSIVE SkipZeros(_, _, _)
SkipZeros(s, i, e) ==
  IF i < e /\ DigitValue(s[i]) = 0 THEN SkipZeros(s, i + 1, e) ELSE i

\* The digit values d are a larger number than the digit values m.
RECURSIVE DigitsExceed(_, _)
DigitsExceed(d, m) ==
  IF Len(d) # Len(m) THEN Len(d) > Len(m)
  ELSE IF d = << >> THEN FALSE
  ELSE IF Head(d) # Head(m) THEN Head(d) > Head(m)
  ELSE DigitsExceed(Tail(d), Tail(m))

\* The number the digits s[i], .., s[e - 1] spell in the base.
RECURSIVE DigitsValue(_, _, _, _, _)
DigitsValue(s, i, e, base, acc) ==
  IF i >= e THEN acc
  ELSE DigitsValue(s, i + 1, e, base, acc * base + DigitValue(s[i]))

\* std::strtoull(s, &end, 0) on text without white space or sign: the base
\* comes from the prefix ("0x" or "0X" before a hexadecimal digit: 16; "0":
\* 8; otherwise 10), end is the position after the last digit, or the start
\* when there is no digit; a number above ULLONG_MAX sets errno.
Strtoull(s) ==
  LET hex == /\ Len(s) >= 3
             /\ s[1] = "0"
             /\ s[2] \in {"x", "X"}
             /\ DigitValue(s[3]) < 16
      base == IF hex THEN 16 ELSE IF Len(s) >= 1 /\ s[1] = "0" THEN 8 ELSE 10
      first == IF hex THEN 3 ELSE 1
      end == DigitsEnd(s, first, base)
      lead == SkipZeros(s, first, end)
      digits == [k \in 1..(end - lead) |-> DigitValue(s[lead + k - 1])]
      range == DigitsExceed(digits, UllongMaxDigits(base))
  IN  [end |-> end,
       errno |-> IF range THEN "ERANGE" ELSE "0",
       value |-> IF range THEN "ULLONG_MAX"
                 ELSE DigitsValue(s, lead, end, base, 0)]

\* The texts given as document ID that are numbers a uint64 holds.
WellFormedIdTexts == {<<"1">>, <<"2">>, <<"0", "x", "2">>, <<"0", "1">>}

\* The texts given as document ID that are not: no digit, text after the
\* digits, a number too large.
MalformedIdTexts ==
  {<< >>, <<"x">>, <<"1", "x">>, [i \in 1..20 |-> "9"]}

\* One argument as arg_parser sorts it: a plain argument (match_argument),
\* --dump-final-document-content with its value (match_option_with_value),
\* or anything else (match_anything).
Arguments ==
  {[kind |-> "argument", text |-> "trace"]}
    \cup {[kind |-> "dump", text |-> t] :
            t \in WellFormedIdTexts \cup MalformedIdTexts}
    \cup {[kind |-> "other", text |-> "--help"]}

CommandLines == UNION {[1..n -> Arguments] : n \in 0..MaxArgs}

\* What the command line a holds, in the terms of the messages of main.
Given(a) ==
  [files |-> Cardinality({i \in DOMAIN a : a[i].kind = "argument"}),
   malformed |-> \E i \in DOMAIN a :
                   a[i].kind = "dump" /\ a[i].text \in MalformedIdTexts,
   unrecognized |-> \E i \in DOMAIN a : a[i].kind = "other"]

\* The lexer is not part of a run of the tool.
LexerNotRun ==
  /\ buffer = <<ch_null>>
  /\ computed_goto = FALSE
  /\ input_ = 1
  /\ last_token_ = [type |-> NoToken, end |-> 1]
  /\ pc = "ready"
  /\ input = 1
  /\ old_state = Uninit
  /\ new_state = Uninit
  /\ begin = 1
  /\ reads = << >>
  /\ accesses = << >>
  /\ labels = << >>
  /\ lexers = NoLexers

lexer_vars ==
  << buffer, computed_goto, input_, last_token_, pc, input, old_state,
     new_state, begin, reads, accesses, labels, lexers >>

\* Entry of main: arg_parser parser(argc, argv) on one of the command lines.
TraceInit ==
  /\ LexerNotRun
  /\ parser \in CommandLines
  /\ o = [trace_files |-> << >>,
          dump_final_document_content_document_id |-> nullopt]
  /\ main_pc = "parse"
  /\ exit_status = Running
  /\ file = "unread"
  /\ events = << >>
  /\ doc_ = << >>
  /\ document_id_ = nullopt
  /\ stdout = << >>
  /\ stderr = << >>
  /\ args_given = Given(parser)

\* Printed text: the characters a printf writes.
Text(t) == [text |-> t, bytes |-> << >>]

\* Printed bytes: what putchar and fwrite write.
Bytes(b) == [text |-> << >>, bytes |-> b]

\* std::exit(status), or main returning status.
Exit(status) ==
  /\ main_pc' = "exited"
  /\ exit_status' = status

\* parse_analyze_options, a round of the loop where match_argument matches:
\* the argument is one more trace file.
ParseArgument ==
  /\ main_pc = "parse"
  /\ parser # << >>
  /\ Head(parser).kind = "argument"
  /\ o' = [o EXCEPT !.trace_files = Append(@, Head(parser).text)]
  /\ parser' = Tail(parser)
  /\ UNCHANGED << main_pc, exit_status, file, events, doc_, document_id_,
                  stdout, stderr, args_given >>
  /\ UNCHANGED lexer_vars

\* A test of the document ID that lets every text pass.
IdIsMalformed_never(r, arg_value) == FALSE

\* errno != 0 || end == arg_value || *end != '\0', for the result r of
\* strtoull on arg_value.
IdIsMalformed(r, arg_value) ==
  \/ r.errno # "0"
  \/ r.end = 1
  \/ r.end <= Len(arg_value)

\* A round of the loop where match_option_with_value matches
\* --dump-final-document-content: a malformed document ID ends the process
\* with status 2, any other is stored in o.
ParseDumpOption ==
  /\ main_pc = "parse"
  /\ parser # << >>
  /\ Head(parser).kind = "dump"
  /\ LET arg_value == Head(parser).text
         r == Strtoull(arg_value)
     IN  IF IdIsMalformed(r, arg_value)
         THEN /\ stderr' = Append(stderr,
                     Text(<<"error: malformed document ID: ">> \o arg_value
                            \o <<"\n">>))
              /\ Exit(2)
              /\ UNCHANGED << parser, o >>
         ELSE /\ o' = [o EXCEPT
                         !.dump_final_document_content_document_id =
                           <<r.value>>]
              /\ parser' = Tail(parser)
              /\ UNCHANGED << main_pc, exit_status, stderr >>
  /\ UNCHANGED << file, events, doc_, document_id_, stdout, args_given >>
  /\ UNCHANGED lexer_vars

\* A round of the loop where neither matches: match_anything, and the process
\* ends with status 2.
ParseUnrecognized ==
  /\ main_pc = "parse"
  /\ parser # << >>
  /\ Head(parser).kind = "other"
  /\ stderr' = Append(stderr,
       Text(<<"error: unrecognized option: ", Head(parser).text, "\n">>))
  /\ Exit(2)
  /\ UNCHANGED << parser, o, file, events, doc_, document_id_, stdout,
                  args_given >>
  /\ UNCHANGED lexer_vars

\* parser.done(): parse_analyze_options returns o, and main returns 2 unless
\* o holds exactly one trace file.
CheckTraceFiles ==
  /\ main_pc = "parse"
  /\ parser = << >>
  /\ IF Len(o.trace_files) = 0
     THEN /\ stderr' = Append(stderr, Text(<<"error: missing trace file\n">>))
          /\ Exit(2)
     ELSE IF Len(o.trace_files) > 1
     THEN /\ stderr' = Append(stderr, Text(<<"error: unexpected arguments\n">>))
          /\ Exit(2)
     ELSE /\ main_pc' = "read_file"
          /\ UNCHANGED << exit_status, stderr >>
  /\ UNCHANGED << parser, o, file, events, doc_, document_id_, stdout,
                  args_given >>
  /\ UNCHANGED lexer_vars

\* The exit status of print_and_exit.
print_and_exit_status == 1

\* read_file(o.trace_files[0]): an error is printed and ends the process;
\* otherwise main constructs the dumper the options ask for, a
\* document_content_dumper with an empty document for the document ID, or an
\* event_dumper.
ReadFile ==
  /\ main_pc = "read_file"
  /\ \E ok \in BOOLEAN :
       IF ok
       THEN /\ file' = "ok"
            /\ main_pc' = "read_trace_stream"
            /\ document_id_' = o.dump_final_document_content_document_id
            /\ UNCHANGED << exit_status, stderr >>
       ELSE /\ file' = "error"
            /\ stderr' = Append(stderr, Text(<<"error: ", o.trace_files[1]>>))
            /\ Exit(print_and_exit_status)
            /\ UNCHANGED document_id_
  /\ UNCHANGED << parser, o, events, doc_, stdout, args_given >>
  /\ UNCHANGED lexer_vars

----
\* The trace stream and document_content_dumper.

\* Most events of one trace stream.
MaxEvents == 2

DocumentIds == {1, 2}

\* Event timestamps, in nanoseconds: none, and one and a half seconds.
Timestamps == {0, 1500000000}

\* UTF-16 text of the events: "a\nb", and U+263A, which is not ASCII.
Contents == {<<97, 10, 98>>, <<9786>>}

Position(l, c) == [line |-> l, character |-> c]

\* Inserts a line break at the start of the document.
InsertLineBreak ==
  [range |-> [start |-> Position(0, 0), end |-> Position(0, 0)],
   text |-> <<10>>]

\* Deletes the first character of the second line.
DeleteInSecondLine ==
  [range |-> [start |-> Position(1, 0), end |-> Position(1, 1)],
   text |-> << >>]

\* The lists of changes of the changed events.
ChangeLists ==
  {<< >>, <<InsertLineBreak, DeleteInSecondLine>>,
   <<DeleteInSecondLine, InsertLineBreak>>}

\* u8"(document closed)"
DocumentClosedText ==
  <<40, 100, 111, 99, 117, 109, 101, 110, 116, 32, 99, 108, 111, 115, 101,
    100, 41>>

\* Every narrow_cast<char8>(c) of the text s keeps the value of c.
NarrowsToChar8(s) == \A i \in DOMAIN s : s[i] \in Uint8

\* to_utf8: one char8 for each UTF-16 code unit, the code unit's low 8 bits.
to_utf8(s) == [i \in DOMAIN s |-> s[i] % 256]

\* The offset in the text t at which the line with the given number starts;
\* the end of the text when it has fewer lines.
RECURSIVE LineStart(_, _, _)
LineStart(t, line, from) ==
  IF line = 0 THEN from
  ELSE IF from >= Len(t) THEN Len(t)
  ELSE LineStart(t, IF t[from + 1] = 10 THEN line - 1 ELSE line, from + 1)

\* The offset of the end of the line that holds the offset from.
RECURSIVE LineEnd(_, _)
LineEnd(t, from) ==
  IF from >= Len(t) \/ t[from + 1] = 10 THEN from ELSE LineEnd(t, from + 1)

\* The offset in the text t of an LSP position; a character beyond the end of
\* its line is the end of the line.
OffsetOf(t, position) ==
  LET start == LineStart(t, position.line, 0)
      end == LineEnd(t, start)
  IN  IF start + position.character > end THEN end
      ELSE start + position.character

\* document::replace_text: the text between the two ends of the range is
\* replaced by the new text.
replace_text(t, range, new) ==
  LET start == OffsetOf(t, range.start)
      end == OffsetOf(t, range.end)
  IN  SubSeq(t, 1, start) \o new
        \o SubSeq(t, (IF end < start THEN start ELSE end) + 1, Len(t))

\* The text after the changes of a changed event, each applied to the text
\* the one before it left.
RECURSIVE ApplyChanges(_, _)
ApplyChanges(t, changes) ==
  IF changes = << >> THEN t
  ELSE ApplyChanges(replace_text(t, Head(changes).range,
                                 to_utf8(Head(changes).text)),
                    Tail(changes))

\* Every narrow_cast<char8> on the texts of the changes keeps its value.
ChangesNarrow(changes) ==
  \A i \in DOMAIN changes : NarrowsToChar8(changes[i].text)

\* The document_content_dumper is the visitor: main was given a document ID;
\* document_id_ holds it.
DumpsDocument == document_id_ # nullopt

\* The URI of the document with the given ID, in UTF-16: "f1", "f2".
Uri(document_id) == <<102, 48 + document_id>>

\* The events of a trace stream, by kind.
ErrorInvalidMagic == {[kind |-> "error_invalid_magic"]}

ErrorInvalidUuid == {[kind |-> "error_invalid_uuid"]}

ErrorUnsupportedCompressionMode ==
  {[kind |-> "error_unsupported_compression_mode", mode |-> 2]}

PacketHeaders == {[kind |-> "packet_header"]}

InitEvents ==
  {[kind |-> "init", timestamp |-> t, version |-> "2.7.0"] : t \in Timestamps}

OpenedEvents ==
  {[kind |-> "vscode_document_opened", timestamp |-> t, document_id |-> d,
    uri |-> Uri(d), content |-> c] :
     t \in Timestamps, d \in DocumentIds, c \in Contents}

ClosedEvents ==
  {[kind |-> "vscode_document_closed", timestamp |-> t, document_id |-> d,
    uri |-> Uri(d)] :
     t \in Timestamps, d \in DocumentIds}

ChangedEvents ==
  {[kind |-> "vscode_document_changed", timestamp |-> t, document_id |-> d,
    changes |-> c] :
     t \in Timestamps, d \in DocumentIds, c \in ChangeLists}

\* read_trace_stream has an event to visit.
Visiting ==
  /\ main_pc = "read_trace_stream"
  /\ Len(events) < MaxEvents

\* The digits of n in the base, without leading zeros.
RECURSIVE Numeral(_, _)
Numeral(n, base) ==
  IF n < base THEN <<LowerDigits[n + 1]>>
  ELSE Numeral(n \div base, base) \o <<LowerDigits[(n % base) + 1]>>

\* %0*llu with the width w: zeros in front up to w characters.
ZeroPadded(n, w) ==
  LET d == Numeral(n, 10)
  IN  [i \in 1..(w - Len(d)) |-> "0"] \o d

\* %#llx: hexadecimal, after "0x" unless the number is zero.
AlternateHex(n) == IF n = 0 THEN <<"0">> ELSE <<"0", "x">> \o Numeral(n, 16)

\* "error: unsupported compression mode: %#02x\n"
UnsupportedCompressionMode(mode) ==
  Text(<<"error: unsupported compression mode: ">>
         \o (IF mode = 0 THEN <<"0", "0">> ELSE AlternateHex(mode))
         \o <<"\n">>)

\* What a visitor of document_content_dumper leaves as it is, besides the
\* event read, the document and stderr.
DumperFrame ==
  /\ UNCHANGED << parser, o, exit_status, file, document_id_, stdout,
                  args_given >>
  /\ UNCHANGED lexer_vars

document_content_dumper_visit_error_invalid_magic ==
  /\ Visiting /\ DumpsDocument
  /\ \E event \in ErrorInvalidMagic : events' = Append(events, event)
  /\ stderr' = Append(stderr, Text(<<"error: invalid magic\n">>))
  /\ UNCHANGED << main_pc, doc_ >>
  /\ DumperFrame

document_content_dumper_visit_error_invalid_uuid ==
  /\ Visiting /\ DumpsDocument
  /\ \E event \in ErrorInvalidUuid : events' = Append(events, event)
  /\ stderr' = Append(stderr, Text(<<"error: invalid UUID\n">>))
  /\ UNCHANGED << main_pc, doc_ >>
  /\ DumperFrame

document_content_dumper_visit_error_unsupported_compression_mode ==
  /\ Visiting /\ DumpsDocument
  /\ \E event \in ErrorUnsupportedCompressionMode :
       /\ events' = Append(events, event)
       /\ stderr' = Append(stderr, UnsupportedCompressionMode(event.mode))
  /\ UNCHANGED << main_pc, doc_ >>
  /\ DumperFrame

document_content_dumper_visit_packet_header ==
  /\ Visiting /\ DumpsDocument
  /\ \E event \in PacketHeaders : events' = Append(events, event)
  /\ UNCHANGED << main_pc, doc_, stderr >>
  /\ DumperFrame

document_content_dumper_visit_init_event ==
  /\ Visiting /\ DumpsDocument
  /\ \E event \in InitEvents : events' = Append(events, event)
  /\ UNCHANGED << main_pc, doc_, stderr >>
  /\ DumperFrame

\* The document gets the text new; where a narrow_cast<char8> in to_utf8 does
\* not keep its value, a build with assertions stops at it instead.
SetDocument(new, narrows) ==
  \/ /\ doc_' = new
     /\ UNCHANGED main_pc
  \/ /\ ~narrows
     /\ main_pc' = "aborted"
     /\ UNCHANGED doc_

document_content_dumper_visit_vscode_document_opened_event ==
  /\ Visiting /\ DumpsDocument
  /\ \E event \in OpenedEvents :
       /\ events' = Append(events, event)
       /\ IF event.document_id # document_id_[1]
          THEN UNCHANGED << main_pc, doc_ >>
          ELSE SetDocument(to_utf8(event.content),
                           NarrowsToChar8(event.content))
  /\ UNCHANGED stderr
  /\ DumperFrame

\* The visitor of closed events without the comparison of the document ID.
document_content_dumper_visit_vscode_document_closed_event_any ==
  /\ Visiting /\ DumpsDocument
  /\ \E event \in ClosedEvents :
       /\ events' = Append(events, event)
       /\ doc_' = DocumentClosedText
  /\ UNCHANGED << main_pc, stderr >>
  /\ DumperFrame

document_content_dumper_visit_vscode_document_closed_event ==
  /\ Visiting /\ DumpsDocument
  /\ \E event \in ClosedEvents :
       /\ events' = Append(events, event)
       /\ IF event.document_id # document_id_[1]
          THEN UNCHANGED doc_
          ELSE doc_' = DocumentClosedText
  /\ UNCHANGED << main_pc, stderr >>
  /\ DumperFrame

document_content_dumper_visit_vscode_document_changed_event ==
  /\ Visiting /\ DumpsDocument
  /\ \E event \in ChangedEvents :
       /\ events' = Append(events, event)
       /\ IF event.document_id # document_id_[1]
          THEN UNCHANGED << main_pc, doc_ >>
          ELSE SetDocument(ApplyChanges(doc_, event.changes),
                           ChangesNarrow(event.changes))
  /\ UNCHANGED stderr
  /\ DumperFrame

----
\* event_dumper.

header_width == 16

ns_per_s == 1000000000

\* print_event_header: printf("@%0*llu.%09llu ", ...) with the arguments
\* event.timestamp % ns_per_s and event.timestamp / ns_per_s, in this order.
print_event_header(event) ==
  Text(<<"@">>
         \o ZeroPadded(event.timestamp % ns_per_s,
                       header_width - 1 - 1 - 9 - 1)
         \o <<".">> \o ZeroPadded(event.timestamp \div ns_per_s, 9) \o <<" ">>)

\* print_document_id
print_document_id(document_id) == Text(AlternateHex(document_id))

\* print_utf16: putchar of the narrowed code units.
print_utf16(s) == Bytes(to_utf8(s))

\* What a visitor of event_dumper leaves as it is, besides the event read and
\* stdout.
EventDumperFrame ==
  /\ UNCHANGED << parser, o, main_pc, exit_status, file, doc_, document_id_,
                  stderr, args_given >>
  /\ UNCHANGED lexer_vars

event_dumper_visit_error_invalid_magic ==
  /\ Visiting /\ ~DumpsDocument
  /\ \E event \in ErrorInvalidMagic : events' = Append(events, event)
  /\ stdout' = Append(stdout, Text(<<"error: invalid magic\n">>))
  /\ EventDumperFrame

event_dumper_visit_error_invalid_uuid ==
  /\ Visiting /\ ~DumpsDocument
  /\ \E event \in ErrorInvalidUuid : events' = Append(events, event)
  /\ stdout' = Append(stdout, Text(<<"error: invalid UUID\n">>))
  /\ EventDumperFrame

event_dumper_visit_error_unsupported_compression_mode ==
  /\ Visiting /\ ~DumpsDocument
  /\ \E event \in ErrorUnsupportedCompressionMode :
       /\ events' = Append(events, event)
       /\ stdout' = Append(stdout, UnsupportedCompressionMode(event.mode))
  /\ EventDumperFrame

event_dumper_visit_packet_header ==
  /\ Visiting /\ ~DumpsDocument
  /\ \E event \in PacketHeaders : events' = Append(events, event)
  /\ UNCHANGED stdout
  /\ EventDumperFrame

event_dumper_visit_init_event ==
  /\ Visiting /\ ~DumpsDocument
  /\ \E event \in InitEvents :
       /\ events' = Append(events, event)
       /\ stdout' = stdout
            \o <<print_event_header(event),
                 Text(<<"init version='", event.version, "'\n">>)>>
  /\ EventDumperFrame

event_dumper_visit_vscode_document_opened_event ==
  /\ Visiting /\ ~DumpsDocument
  /\ \E event \in OpenedEvents :
       /\ events' = Append(events, event)
       /\ stdout' = stdout
            \o <<print_event_header(event), Text(<<"document ">>),
                 print_document_id(event.document_id), Text(<<" opened: ">>),
                 print_utf16(event.uri), Text(<<"\n">>)>>
  /\ EventDumperFrame

event_dumper_visit_vscode_document_closed_event ==
  /\ Visiting /\ ~DumpsDocument
  /\ \E event \in ClosedEvents :
       /\ events' = Append(events, event)
       /\ stdout' = stdout
            \o <<print_event_header(event), Text(<<"document ">>),
                 print_document_id(event.document_id), Text(<<" closed: ">>),
                 print_utf16(event.uri), Text(<<"\n">>)>>
  /\ EventDumperFrame

\* What the loop over the changes of a changed event prints.
RECURSIVE PrintChanges(_)
PrintChanges(changes) ==
  IF changes = << >> THEN << >>
  ELSE LET change == Head(changes)
       IN  <<Text([i \in 1..header_width |-> " "]
                    \o Numeral(change.range.start.line, 10) \o <<":">>
                    \o Numeral(change.range.start.character, 10) \o <<"->">>
                    \o Numeral(change.range.end.line, 10) \o <<":">>
                    \o Numeral(change.range.end.character, 10) \o <<": '">>),
             print_utf16(change.text), Text(<<"'\n">>)>>
             \o PrintChanges(Tail(changes))

event_dumper_visit_vscode_document_changed_event ==
  /\ Visiting /\ ~DumpsDocument
  /\ \E event \in ChangedEvents :
       /\ events' = Append(events, event)
       /\ stdout' = stdout
            \o <<print_event_header(event), Text(<<"document ">>),
                 print_document_id(event.document_id),
                 Text(<<" changed\n">>)>>
            \o PrintChanges(event.changes)
  /\ EventDumperFrame

\* read_trace_stream returns at the end of the stream: the
\* document_content_dumper prints its document, and main returns 0.
EndOfStream ==
  /\ main_pc = "read_trace_stream"
  /\ stdout' = IF DumpsDocument THEN Append(stdout, Bytes(doc_)) ELSE stdout
  /\ Exit(0)
  /\ UNCHANGED << parser, o, file, events, doc_, document_id_, stderr,
                  args_given >>
  /\ UNCHANGED lexer_vars

TraceNext ==
  \/ ParseArgument
  \/ ParseDumpOption
  \/ ParseUnrecognized
  \/ CheckTraceFiles
  \/ ReadFile
  \/ document_content_dumper_visit_error_invalid_magic
  \/ document_content_dumper_visit_error_invalid_uuid
  \/ document_content_dumper_visit_error_unsupported_compression_mode
  \/ document_content_dumper_visit_packet_header
  \/ document_content_dumper_visit_init_event
  \/ document_content_dumper_visit_vscode_document_opened_event
  \/ document_content_dumper_visit_vscode_document_closed_event
  \/ document_content_dumper_visit_vscode_document_changed_event
  \/ event_dumper_visit_error_invalid_magic
  \/ event_dumper_visit_error_invalid_uuid
  \/ event_dumper_visit_error_unsupported_compression_mode
  \/ event_dumper_visit_packet_header
  \/ event_dumper_visit_init_event
  \/ event_dumper_visit_vscode_document_opened_event
  \/ event_dumper_visit_vscode_document_closed_event
  \/ event_dumper_visit_vscode_document_changed_event
  \/ EndOfStream

TraceSpec == TraceInit /\ [][TraceNext]_vars

----
\* Properties of the analyze-trace tool.

\* The kinds of the events that belong to a document.
DocumentEventKinds ==
  {"vscode_document_opened", "vscode_document_closed",
   "vscode_document_changed"}

\* The text after the changes, each applied as it is to the text the one
\* before it left.
RECURSIVE ChangesReplayed(_, _)
ChangesReplayed(t, changes) ==
  IF changes = << >> THEN t
  ELSE ChangesReplayed(replace_text(t, Head(changes).range,
                                    Head(changes).text),
                       Tail(changes))

\* The text of the document with the given ID after the events es, replayed
\* in stream order from the empty document.
RECURSIVE Replayed(_, _)
Replayed(es, id) ==
  IF es = << >> THEN << >>
  ELSE LET before == Replayed(SubSeq(es, 1, Len(es) - 1), id)
           event == es[Len(es)]
       IN  IF event.kind \notin DocumentEventKinds THEN before
           ELSE IF event.document_id # id THEN before
           ELSE IF event.kind = "vscode_document_opened" THEN event.content
           ELSE IF event.kind = "vscode_document_closed"
           THEN DocumentClosedText
           ELSE ChangesReplayed(before, event.changes)

\* C22: after any sequence of events, the document of the
\* document_content_dumper is the replay, in stream order, of the events of
\* its document ID only: opened sets the text to the event's content, closed
\* to "(document closed)", changed applies its changes in list order, each to
\* the text the change before it produced.
ReplayOfOneDocument ==
  (DumpsDocument /\ main_pc \in {"read_trace_stream", "exited"}) =>
    doc_ = Replayed(events, document_id_[1])

\* The event read_trace_stream has visited last.
LastEvent == events[Len(events)]

\* An event that is not of the dumper's document: a packet header, an init
\* or error event, or an event of another document.
ForeignEvent(event) ==
  \/ event.kind \notin DocumentEventKinds
  \/ event.document_id # document_id_[1]

\* C23: the document_content_dumper leaves its document unchanged on every
\* opened, closed or changed event of another document ID, and on every
\* packet-header, init and error event.
ForeignEventsIgnored ==
  [][(DumpsDocument /\ events' # events /\ ForeignEvent(LastEvent'))
       => doc_' = doc_]_vars

\* An event of another document is the last of two, after the dumper's
\* document was opened with text.
ForeignEventsIgnoredWitness ==
  /\ DumpsDocument
  /\ Len(events) = 2
  /\ events[1].kind = "vscode_document_opened"
  /\ events[1].document_id = document_id_[1]
  /\ events[2].kind = "vscode_document_closed"
  /\ events[2].document_id # document_id_[1]
  /\ doc_ = <<97, 10, 98>>

\* The position of the dot in a printed header.
DotOf(header) == CHOOSE i \in DOMAIN header : header[i] = "."

\* C24: the header printed for an event is "@<seconds>.<nanoseconds> ": the
\* field before the dot is the timestamp div 1,000,000,000, the field after
\* it has nine digits and is the timestamp mod 1,000,000,000.
HeaderIsSecondsDotNanoseconds ==
  [][(~DumpsDocument /\ events' # events
        /\ LastEvent'.kind \in DocumentEventKinds \cup {"init"})
       => LET header == stdout'[Len(stdout) + 1].text
              dot == DotOf(header)
          IN  /\ header[1] = "@"
              /\ DigitsValue(header, 2, dot, 10, 0)
                   = LastEvent'.timestamp \div 1000000000
              /\ Len(header) - 1 - dot = 9
              /\ DigitsValue(header, dot + 1, Len(header), 10, 0)
                   = LastEvent'.timestamp % 1000000000]_vars

\* The command line held exactly one trace file, no malformed document ID
\* and no unrecognized option.
ArgumentsValid ==
  /\ args_given.files = 1
  /\ ~args_given.malformed
  /\ ~args_given.unrecognized

\* A round of the loop of parse_analyze_options, or its return, can be taken:
\* the guard of ParseArgument, ParseDumpOption, ParseUnrecognized or
\* CheckTraceFiles holds.
ParseCanStep ==
  parser # << >> => Head(parser).kind \in {"argument", "dump", "other"}

\* C25: read_file is called only when the command line was valid; with any
\* other command line the run reads no file, visits no event and ends with
\* exit status 2.
ValidationPrecedesRead ==
  /\ (main_pc = "read_file" \/ file # "unread") => ArgumentsValid
  /\ ~ArgumentsValid =>
       /\ file = "unread"
       /\ events = << >>
       /\ main_pc \in {"parse", "exited"}
       /\ main_pc = "parse" => ParseCanStep
       /\ main_pc = "exited" => exit_status = 2

\* A run given two trace files after a well-formed document ID has ended.
ValidationPrecedesReadWitness ==
  /\ main_pc = "exited"
  /\ exit_status = 2
  /\ args_given.files = 2
  /\ ~args_given.malformed
  /\ ~args_given.unrecognized
  /\ o.dump_final_document_content_document_id # nullopt
  /\ file = "unread"

====
